---------------------------- MODULE Spec2Model ----------------------------
(* A model of src/final.rs: the same-day co-occurrence graph                *)
(* (build_adjacency_list), the breadth-first reachability query             *)
(* (six_degrees_of_distribution), the per-day aggregation                   *)
(* (plot_temporal_trends) and the clustering part of main.                  *)
(*                                                                          *)
(* Record ids (Strings in the source) are modelled as naturals. A           *)
(* NaiveDateTime is a tick count: TicksPerDay ticks make one calendar day,  *)
(* and NaiveDateTime::date() is the integer division that drops the time of *)
(* day. A hash container's iteration order is a nondeterministic choice.    *)
EXTENDS Integers, Sequences, FiniteSets, TLC

VARIABLES
    pc,              \* position of the modelled function
    records,         \* the &[CrimeRecord] input
    bi,              \* build_adjacency_list: index of the `for record in records` loop
    adjacency_list,  \* HashMap<String, HashSet<String>>
    start_node,      \* six_degrees_of_distribution: start_node
    visited,         \* six_degrees_of_distribution: visited
    queue,           \* six_degrees_of_distribution: queue
    current_node,    \* six_degrees_of_distribution: current_node
    pending,         \* neighbours the `for neighbor in neighbors` loop has yet to yield
    pushes,          \* history: how many times each id was passed to queue.push
    returned,        \* the value six_degrees_of_distribution returned
    date_counts,     \* plot_temporal_trends: date_counts
    ti,              \* plot_temporal_trends: index of a loop over records / dates
    iter_order,      \* the iteration order of date_counts (keys() and values())
    dates,           \* plot_temporal_trends: dates
    printed,         \* the (date, count) lines printed
    drawn,           \* the (date, count) elements handed to chart.draw_series
    valid_records,   \* main: valid_records
    points,          \* main: points
    k,               \* main: k
    centers,         \* k-means: the current centers
    clusters,        \* k-means: the members (point indices) of each cluster
    iter,            \* k-means: iterations done
    ci,              \* main: index of the `for (idx, cluster)` loop
    mi,              \* main: index of the `for member in cluster.points()` loop
    report           \* main: the (cluster index, record index) pairs printed

graphVars == <<bi, adjacency_list>>
bfsVars == <<start_node, visited, queue, current_node, pending, pushes, returned>>
temporalVars == <<date_counts, ti, iter_order, dates, printed, drawn>>
clusterVars == <<valid_records, points, k, centers, clusters, iter, ci, mi, report>>
vars == <<pc, records, graphVars, bfsVars, temporalVars, clusterVars>>

----------------------------------------------------------------------------
(* Bounds of the model *)

MaxRecs == 3        \* longest record sequence
MaxDateTime == 3    \* timestamps are 0..MaxDateTime
TicksPerDay == 2    \* distinct times of day
NumNodes == 3       \* ids of the graphs given to the reachability query alone
MaxPts == 3         \* most points given to the clusterer alone
MaxCoord == 2       \* x coordinates are 0..MaxCoord
MaxIter == 2        \* the clusterer's iteration bound

K == 3              \* main: let k = 3

XCoords == 0..MaxCoord
YCoords == 0..1

RecIds == 1..MaxRecs
DateTimes == 0..MaxDateTime
None == -1          \* Option::None of a coordinate

(* NaiveDateTime::date(): the time of day is discarded *)
DateOf(dt) == dt \div TicksPerDay

Range(s) == {s[j] : j \in 1..Len(s)}

Injective(s) == \A a, b \in 1..Len(s) : s[a] = s[b] => a = b

Perms(S) == {s \in [1..Cardinality(S) -> S] : Injective(s)}

RecordSeqs(RecSet) == UNION {[1..n -> RecSet] : n \in 0..MaxRecs}

UniqueIds(recs) == \A a, b \in 1..Len(recs) : recs[a].ID = recs[b].ID => a = b

IdleGraph == bi = 0 /\ adjacency_list = <<>>
IdleBFS ==
    /\ start_node = 0 /\ visited = {} /\ queue = <<>> /\ current_node = 0
    /\ pending = {} /\ pushes = <<>> /\ returned = [kind |-> "None", value |-> {}]
IdleTemporal ==
    /\ date_counts = <<>> /\ ti = 0 /\ iter_order = <<>> /\ dates = <<>>
    /\ printed = <<>> /\ drawn = <<>>
IdleCluster ==
    /\ valid_records = <<>> /\ points = <<>> /\ k = 0 /\ centers = <<>>
    /\ clusters = <<>> /\ iter = 0 /\ ci = 0 /\ mi = 0 /\ report = <<>>

----------------------------------------------------------------------------
(* build_adjacency_list *)

RelatedNodesNoDate(recs, record) ==
    {recs[j].ID : j \in {j \in 1..Len(recs) :
        /\ recs[j].ID # record.ID
        /\ recs[j].Date = record.Date}}

RelatedNodesWithSelf(recs, record) ==
    {recs[j].ID : j \in {j \in 1..Len(recs) :
        DateOf(recs[j].Date) = DateOf(record.Date)}}

(* the filter / filter / map / collect chain of one loop iteration *)
RelatedNodes(recs, record) ==
    {recs[j].ID : j \in {j \in 1..Len(recs) :
        /\ recs[j].ID # record.ID
        /\ DateOf(recs[j].Date) = DateOf(record.Date)}}

(* HashMap::insert: a later value for the same key replaces the earlier *)
MapInsert(m, key, val) ==
    [x \in (DOMAIN m) \cup {key} |-> IF x = key THEN val ELSE m[x]]

BuildStep ==
    /\ pc = "build"
    /\ bi < Len(records)
    /\ bi' = bi + 1
    /\ adjacency_list' = MapInsert(adjacency_list, records[bi + 1].ID,
                                   RelatedNodes(records, records[bi + 1]))
    /\ UNCHANGED <<pc, records, bfsVars, temporalVars, clusterVars>>

BuildReturn ==
    /\ pc = "build"
    /\ bi = Len(records)
    /\ pc' = "bfs_start"
    /\ UNCHANGED <<records, graphVars, bfsVars, temporalVars, clusterVars>>

----------------------------------------------------------------------------
(* six_degrees_of_distribution *)

SeedVisitedEmpty(s) == {}

(* visited.insert(start_node.to_owned()) into the new set *)
SeedVisited(s) == {s}

BFSStart ==
    /\ pc = "bfs_start"
    /\ queue' = <<start_node>>
    /\ visited' = SeedVisited(start_node)
    /\ pushes' = [x \in {start_node} |-> 1]
    /\ pc' = "bfs_loop"
    /\ UNCHANGED <<records, graphVars, start_node, current_node, pending, returned,
                   temporalVars, clusterVars>>

RemoveFirstKeeps(q) == q

(* what queue.remove(0) leaves in the queue *)
RemoveFirst(q) == Tail(q)

BFSDequeue ==
    /\ pc = "bfs_loop"
    /\ queue # <<>>
    /\ current_node' = Head(queue)
    /\ queue' = RemoveFirst(queue)
    /\ pending' = IF Head(queue) \in DOMAIN adjacency_list
                  THEN adjacency_list[Head(queue)] ELSE {}
    /\ pc' = "bfs_for"
    /\ UNCHANGED <<records, graphVars, start_node, visited, pushes, returned,
                   temporalVars, clusterVars>>

(* visited.insert(neighbor.clone()) *)
MarkVisited(vis, neighbor) == vis \cup {neighbor}

RestAfterBreak(pend, neighbor) == {}

(* the neighbours the loop has yet to yield after it yielded `neighbor` *)
RestAfter(pend, neighbor) == pend \ {neighbor}

CountPush(p, x) ==
    [y \in (DOMAIN p) \cup {x} |-> IF y = x
                                   THEN (IF x \in DOMAIN p THEN p[x] + 1 ELSE 1)
                                   ELSE p[y]]

BFSVisit ==
    /\ pc = "bfs_for"
    /\ \E neighbor \in pending :
        /\ pending' = RestAfter(pending, neighbor)
        /\ IF neighbor \notin visited
           THEN /\ visited' = MarkVisited(visited, neighbor)
                /\ queue' = Append(queue, neighbor)
                /\ pushes' = CountPush(pushes, neighbor)
           ELSE UNCHANGED <<visited, queue, pushes>>
    /\ UNCHANGED <<pc, records, graphVars, start_node, current_node, returned,
                   temporalVars, clusterVars>>

BFSForEnd ==
    /\ pc = "bfs_for"
    /\ pending = {}
    /\ pc' = "bfs_loop"
    /\ UNCHANGED <<records, graphVars, bfsVars, temporalVars, clusterVars>>

BFSReturn ==
    /\ pc = "bfs_loop"
    /\ queue = <<>>
    /\ returned' = [kind |-> "Ok", value |-> visited]
    /\ pc' = "bfs_done"
    /\ UNCHANGED <<records, graphVars, start_node, visited, queue, current_node,
                   pending, pushes, temporalVars, clusterVars>>

----------------------------------------------------------------------------
(* The graph pipeline: build_adjacency_list, then the query, over a record  *)
(* set with unique ids; the start id may be absent from the graph.          *)

GraphRecords ==
    {recs \in RecordSeqs([ID : RecIds, Date : DateTimes, X_Coordinate : {0},
                          Y_Coordinate : {0}]) : UniqueIds(recs)}

InitGraph ==
    /\ pc = "build"
    /\ records \in GraphRecords
    /\ start_node \in 1..(MaxRecs + 1)
    /\ bi = 0 /\ adjacency_list = <<>>
    /\ visited = {} /\ queue = <<>> /\ current_node = 0
    /\ pending = {} /\ pushes = <<>> /\ returned = [kind |-> "None", value |-> {}]
    /\ IdleTemporal /\ IdleCluster

NextBFS == BFSStart \/ BFSDequeue \/ BFSVisit \/ BFSForEnd \/ BFSReturn

NextGraph == BuildStep \/ BuildReturn \/ NextBFS

SpecGraph == InitGraph /\ [][NextGraph]_vars

(* The query alone, over every graph on NumNodes ids: keys may be missing,  *)
(* edges need not be symmetric. The code only compares ids for equality and *)
(* the graphs are closed under renaming the ids, so the start id is id 1.   *)

Nodes == 1..NumNodes

Graphs == UNION {[D -> SUBSET Nodes] : D \in SUBSET Nodes}

InitBFS ==
    /\ pc = "bfs_start"
    /\ records = <<>>
    /\ bi = 0
    /\ adjacency_list \in Graphs
    /\ start_node = 1
    /\ visited = {} /\ queue = <<>> /\ current_node = 0
    /\ pending = {} /\ pushes = <<>> /\ returned = [kind |-> "None", value |-> {}]
    /\ IdleTemporal /\ IdleCluster

SpecBFS == InitBFS /\ [][NextBFS]_vars

(* The running query: the loop of a single-threaded function keeps taking   *)
(* steps until it returns. The graphs are those of Graphs in which no id is *)
(* its own neighbour (cycles through two or more ids remain).               *)
NoSelfLoop(g) == \A x \in DOMAIN g : x \notin g[x]

InitFairBFS == InitBFS /\ NoSelfLoop(adjacency_list)

FairSpecBFS == InitFairBFS /\ [][NextBFS]_vars /\ WF_vars(NextBFS)

Spec == SpecGraph

----------------------------------------------------------------------------
(* plot_temporal_trends *)

CountEntryReset(m, date) == [x \in (DOMAIN m) \cup {date} |-> IF x = date THEN 1 ELSE m[x]]

(* date_counts.entry(date).and_modify(|c| *c += 1).or_insert(1) *)
CountEntry(m, date) ==
    [x \in (DOMAIN m) \cup {date} |->
        IF x = date THEN (IF date \in DOMAIN m THEN m[date] + 1 ELSE 1) ELSE m[x]]

TCountStep ==
    /\ pc = "count"
    /\ ti < Len(records)
    /\ ti' = ti + 1
    /\ date_counts' = CountEntry(date_counts, DateOf(records[ti + 1].Date))
    /\ UNCHANGED <<pc, records, graphVars, bfsVars, iter_order, dates, printed, drawn,
                   clusterVars>>

(* date_counts.keys().cloned().collect(): the keys in the map's iteration order *)
TCollectKeys ==
    /\ pc = "count"
    /\ ti = Len(records)
    /\ \E order \in Perms(DOMAIN date_counts) :
        /\ iter_order' = order
        /\ dates' = order
    /\ pc' = "sort"
    /\ UNCHANGED <<records, graphVars, bfsVars, date_counts, ti, printed, drawn,
                   clusterVars>>

RECURSIVE InsertSorted(_, _)
InsertSorted(s, x) ==
    IF s = <<>> THEN <<x>>
    ELSE IF x < Head(s) THEN <<x>> \o s
    ELSE <<Head(s)>> \o InsertSorted(Tail(s), x)

RECURSIVE SortFrom(_, _)
SortFrom(done, rest) ==
    IF rest = <<>> THEN done ELSE SortFrom(InsertSorted(done, Head(rest)), Tail(rest))

(* dates.sort() *)
Sort(s) == SortFrom(<<>>, s)

TSort ==
    /\ pc = "sort"
    /\ dates' = Sort(dates)
    /\ ti' = 0
    /\ pc' = "print"
    /\ UNCHANGED <<records, graphVars, bfsVars, date_counts, iter_order, printed, drawn,
                   clusterVars>>

(* println!("Date: {}, Count: {}", date, date_counts[date]) *)
TPrintStep ==
    /\ pc = "print"
    /\ ti < Len(dates)
    /\ ti' = ti + 1
    /\ printed' = Append(printed, [date |-> dates[ti + 1],
                                   count |-> date_counts[dates[ti + 1]]])
    /\ UNCHANGED <<pc, records, graphVars, bfsVars, date_counts, iter_order, dates,
                   drawn, clusterVars>>

(* build_cartesian_2d(dates[0]..dates.last().unwrap().succ(), ...): indexing *)
(* an empty dates panics                                                     *)
TBuildChart ==
    /\ pc = "print"
    /\ ti = Len(dates)
    /\ pc' = IF dates = <<>> THEN "panic" ELSE "draw"
    /\ UNCHANGED <<records, graphVars, bfsVars, temporalVars, clusterVars>>

(* dates.iter().zip(date_counts.values()): the sorted dates paired with the *)
(* counts in the map's iteration order                                      *)
ZipDatesValues(ds, m, order) ==
    [j \in 1..Len(ds) |-> [date |-> ds[j], count |-> m[order[j]]]]

TDrawSeries ==
    /\ pc = "draw"
    /\ drawn' = ZipDatesValues(dates, date_counts, iter_order)
    /\ pc' = "plot_done"
    /\ UNCHANGED <<records, graphVars, bfsVars, date_counts, ti, iter_order, dates,
                   printed, clusterVars>>

TemporalRecords ==
    {recs \in RecordSeqs([ID : RecIds, Date : DateTimes, X_Coordinate : {0},
                          Y_Coordinate : {0}]) :
        \A j \in 1..Len(recs) : recs[j].ID = j}

InitTemporal ==
    /\ pc = "count"
    /\ records \in TemporalRecords
    /\ IdleGraph /\ IdleBFS /\ IdleTemporal /\ IdleCluster

NextTemporal == TCountStep \/ TCollectKeys \/ TSort \/ TPrintStep \/ TBuildChart \/ TDrawSeries

SpecTemporal == InitTemporal /\ [][NextTemporal]_vars

----------------------------------------------------------------------------
(* The clusterer. KMeans::new and KMeans::fit are the k_means crate's; the  *)
(* algorithm is the one section 4.2 of the specification gives. A center is *)
(* the rational point (sx / n, sy / n), kept as the sums and the count of   *)
(* the members it is the mean of, so that distances compare exactly.        *)

Sq(a) == a * a

(* squared Euclidean distance from p to c, times c.n squared *)
DistNum(p, c) == Sq(p.x * c.n - c.sx) + Sq(p.y * c.n - c.sy)

(* p is strictly nearer to center c1 than to center c2 *)
Closer(p, c1, c2) == DistNum(p, c1) * Sq(c2.n) < DistNum(p, c2) * Sq(c1.n)

JoinsEveryNearest(p, j, cs) == \A j2 \in 1..Len(cs) : ~Closer(p, cs[j2], cs[j])

(* assignment step: p joins the cluster of its nearest center, the lowest   *)
(* cluster index among equally near centers                                 *)
Joins(p, j, cs) ==
    \A j2 \in 1..Len(cs) :
        /\ j2 < j => Closer(p, cs[j], cs[j2])
        /\ j2 > j => ~Closer(p, cs[j2], cs[j])

Assignment(pts, cs) == [j \in 1..Len(cs) |-> {i \in 1..Len(pts) : Joins(pts[i], j, cs)}]

RECURSIVE SumX(_, _)
SumX(pts, S) ==
    IF S = {} THEN 0 ELSE LET i == CHOOSE i \in S : TRUE IN pts[i].x + SumX(pts, S \ {i})

RECURSIVE SumY(_, _)
SumY(pts, S) ==
    IF S = {} THEN 0 ELSE LET i == CHOOSE i \in S : TRUE IN pts[i].y + SumY(pts, S \ {i})

(* update step: the mean of the members; an empty cluster keeps its center *)
UpdatedCenters(pts, cs, cl) ==
    [j \in 1..Len(cs) |->
        IF cl[j] = {} THEN cs[j]
        ELSE [sx |-> SumX(pts, cl[j]), sy |-> SumY(pts, cl[j]), n |-> Cardinality(cl[j])]]

RECURSIVE AscendingSeq(_)
AscendingSeq(S) ==
    IF S = {} THEN <<>>
    ELSE LET m == CHOOSE m \in S : \A x \in S : m <= x IN <<m>> \o AscendingSeq(S \ {m})

(* seeding: k of the points, taken in input order *)
KMeansNew ==
    /\ pc = "kmeans_new"
    /\ k >= 1 /\ k <= Len(points)
    /\ \E seeds \in SUBSET (1..Len(points)) :
        /\ Cardinality(seeds) = k
        /\ centers' = [j \in 1..k |->
                          LET p == points[AscendingSeq(seeds)[j]]
                          IN  [sx |-> p.x, sy |-> p.y, n |-> 1]]
    /\ clusters' = [j \in 1..k |-> {}]
    /\ iter' = 0
    /\ pc' = "kmeans_fit"
    /\ UNCHANGED <<records, graphVars, bfsVars, temporalVars, valid_records, points, k,
                   ci, mi, report>>

(* one assignment step and update step; fit ends when no point changed its  *)
(* cluster or at the iteration bound                                        *)
KMeansIterate ==
    /\ pc = "kmeans_fit"
    /\ LET cl == Assignment(points, centers)
       IN  /\ clusters' = cl
           /\ centers' = UpdatedCenters(points, centers, cl)
           /\ iter' = iter + 1
           /\ pc' = IF cl = clusters \/ iter + 1 >= MaxIter THEN "fit_done" ELSE "kmeans_fit"
    /\ UNCHANGED <<records, graphVars, bfsVars, temporalVars, valid_records, points, k,
                   ci, mi, report>>

NextKMeans == KMeansNew \/ KMeansIterate

PointSeqs == UNION {[1..n -> [x : XCoords, y : YCoords]] : n \in 1..MaxPts}

InitKMeans ==
    /\ pc = "kmeans_new"
    /\ records = <<>>
    /\ IdleGraph /\ IdleBFS /\ IdleTemporal
    /\ valid_records = <<>>
    /\ points \in PointSeqs
    /\ k \in 1..K
    /\ k <= Len(points)
    /\ centers = <<>> /\ clusters = <<>> /\ iter = 0 /\ ci = 0 /\ mi = 0 /\ report = <<>>

SpecKMeans == InitKMeans /\ [][NextKMeans]_vars

----------------------------------------------------------------------------
(* main, up to the end of the report of the clusters. The calls that follow *)
(* (plot_temporal_trends, build_adjacency_list, six_degrees_of_distribution)*)
(* are modelled above. What KMeans::new does with k > points.len() is the   *)
(* crate's and is not modelled: such a run stops at "kmeans_new".           *)

HasCoordinates(r) == r.X_Coordinate # None /\ r.Y_Coordinate # None

(* records.into_iter().filter(...).collect() *)
MainFilter ==
    /\ pc = "main"
    /\ valid_records' = SelectSeq(records, HasCoordinates)
    /\ pc' = "main_points"
    /\ UNCHANGED <<records, graphVars, bfsVars, temporalVars, points, k, centers,
                   clusters, iter, ci, mi, report>>

(* valid_records.iter().map(|r| Point::new(vec![x, y])).collect(); let k = 3 *)
MainPoints ==
    /\ pc = "main_points"
    /\ points' = [j \in 1..Len(valid_records) |->
                    [x |-> valid_records[j].X_Coordinate,
                     y |-> valid_records[j].Y_Coordinate]]
    /\ k' = K
    /\ pc' = "kmeans_new"
    /\ UNCHANGED <<records, graphVars, bfsVars, temporalVars, valid_records, centers,
                   clusters, iter, ci, mi, report>>

MainReportStart ==
    /\ pc = "fit_done"
    /\ ci' = 1
    /\ mi' = 0
    /\ pc' = "report"
    /\ UNCHANGED <<records, graphVars, bfsVars, temporalVars, valid_records, points, k,
                   centers, clusters, iter, report>>

(* points.iter().position(|p| p == member).unwrap(): the first index whose  *)
(* point equals the member                                                  *)
Position(pts, member) == CHOOSE i \in 1..Len(pts) :
    /\ pts[i] = member
    /\ \A i2 \in 1..(i - 1) : pts[i2] # member

(* one iteration of `for member in cluster.points()`: the member is a point *)
(* value; valid_records[record_idx] is printed                              *)
MainReportMember ==
    /\ pc = "report"
    /\ ci <= Len(clusters)
    /\ mi < Cardinality(clusters[ci])
    /\ LET member == points[AscendingSeq(clusters[ci])[mi + 1]]
           record_idx == Position(points, member)
       IN  report' = Append(report, [cluster |-> ci, record |-> record_idx])
    /\ mi' = mi + 1
    /\ UNCHANGED <<pc, records, graphVars, bfsVars, temporalVars, valid_records, points,
                   k, centers, clusters, iter, ci>>

MainReportNextCluster ==
    /\ pc = "report"
    /\ ci <= Len(clusters)
    /\ mi = Cardinality(clusters[ci])
    /\ ci' = ci + 1
    /\ mi' = 0
    /\ UNCHANGED <<pc, records, graphVars, bfsVars, temporalVars, valid_records, points,
                   k, centers, clusters, iter, report>>

MainReportEnd ==
    /\ pc = "report"
    /\ ci > Len(clusters)
    /\ pc' = "reported"
    /\ UNCHANGED <<records, graphVars, bfsVars, temporalVars, clusterVars>>

MainRecords ==
    {recs \in RecordSeqs([ID : RecIds, Date : {0}, X_Coordinate : {None} \cup XCoords,
                          Y_Coordinate : {None} \cup YCoords]) :
        \A j \in 1..Len(recs) : recs[j].ID = j}

InitMain ==
    /\ pc = "main"
    /\ records \in MainRecords
    /\ IdleGraph /\ IdleBFS /\ IdleTemporal /\ IdleCluster

NextMain ==
    \/ MainFilter \/ MainPoints \/ NextKMeans
    \/ MainReportStart \/ MainReportMember \/ MainReportNextCluster \/ MainReportEnd

SpecMain == InitMain /\ [][NextMain]_vars

----------------------------------------------------------------------------
(* Properties of the graph and of the reachability query *)

IdsOfDate(recs, d) == {recs[j].ID : j \in {j \in 1..Len(recs) : DateOf(recs[j].Date) = d}}

RecordOf(recs, id) == recs[CHOOSE j \in 1..Len(recs) : recs[j].ID = id]

(* the ids some path of the graph leads to from the ids of S: no queue, no order *)
RECURSIVE Closure(_, _)
Closure(g, S) ==
    LET N == S \cup UNION {g[x] : x \in S \cap DOMAIN g}
    IN  IF N = S THEN S ELSE Closure(g, N)

(* C1: over a record set with unique ids, for a start id that is a key of   *)
(* the built graph, the query returns exactly the ids of the records of the *)
(* start record's calendar date, the start id included.                     *)
C1_ReachableIsSameDate ==
    (pc = "bfs_done" /\ UniqueIds(records) /\ start_node \in DOMAIN adjacency_list)
        => /\ returned.kind = "Ok"
           /\ returned.value =
                IdsOfDate(records, DateOf(RecordOf(records, start_node).Date))

C1_Witness ==
    /\ pc = "bfs_done"
    /\ start_node \in DOMAIN adjacency_list
    /\ Cardinality(returned.value) = 2
    /\ Len(records) = 3
    /\ \E a, b \in 1..Len(records) :
          /\ records[a].ID = start_node
          /\ records[b].ID \in returned.value
          /\ records[a].Date # records[b].Date

(* C2: in the built graph, for records A, B with different ids, B.ID is in  *)
(* adjacency(A.ID) iff A and B have the same calendar date (so membership   *)
(* is symmetric), and no id is in its own adjacency set.                    *)
C2_AdjacencyIsSameDate ==
    (pc # "build" /\ UniqueIds(records)) =>
        \A a, b \in 1..Len(records) :
            /\ records[a].ID \in DOMAIN adjacency_list
            /\ records[a].ID # records[b].ID =>
                 /\ records[b].ID \in adjacency_list[records[a].ID]
                      <=> DateOf(records[a].Date) = DateOf(records[b].Date)
                 /\ records[b].ID \in adjacency_list[records[a].ID]
                      <=> records[a].ID \in adjacency_list[records[b].ID]
            /\ records[a].ID \notin adjacency_list[records[a].ID]

C2_Witness ==
    /\ pc = "bfs_start"
    /\ Len(records) = 3
    /\ \E a, b, c \in 1..3 :
          /\ records[b].ID \in adjacency_list[records[a].ID]
          /\ records[a].Date # records[b].Date
          /\ records[c].ID \notin adjacency_list[records[a].ID]
          /\ c # a

(* C5 as claimed: a start id that is not a key of the graph makes the query *)
(* fail with NotFound / InvalidInput instead of returning a set.            *)
C5_AbsentStartFails ==
    (pc = "bfs_done" /\ start_node \notin DOMAIN adjacency_list)
        => returned.kind \in {"NotFound", "InvalidInput"}

(* C5 as the code has it: a start id that is not a key of the graph is no   *)
(* error; the query returns the set holding just that start id.             *)
C5_AbsentStartIsSingleton ==
    (pc = "bfs_done" /\ start_node \notin DOMAIN adjacency_list)
        => returned = [kind |-> "Ok", value |-> {start_node}]

C5_Witness ==
    /\ pc = "bfs_done"
    /\ start_node \notin DOMAIN adjacency_list
    /\ DOMAIN adjacency_list # {}
    /\ returned.kind = "Ok"

(* C7: whatever order the neighbours of each dequeued node are yielded in,  *)
(* the query returns the same set for a given graph and start id: the ids   *)
(* that a path leads to from the start id.                                  *)
C7_ResultIndependentOfOrder ==
    pc = "bfs_done" => returned.value = Closure(adjacency_list, {start_node})

C7_Witness ==
    /\ pc = "bfs_done"
    /\ Cardinality(returned.value) = 3
    /\ start_node \in DOMAIN adjacency_list
    /\ Cardinality(adjacency_list[start_node] \ {start_node}) = 2
    /\ \E x \in DOMAIN adjacency_list : adjacency_list[x] \cap returned.value = {}

----------------------------------------------------------------------------
(* Properties of the temporal aggregation *)

CountOfDate(recs, d) == Cardinality({j \in 1..Len(recs) : DateOf(recs[j].Date) = d})

RECURSIVE SumOver(_, _)
SumOver(m, D) ==
    IF D = {} THEN 0
    ELSE LET x == CHOOSE x \in D : TRUE IN m[x] + SumOver(m, D \ {x})

StrictlyAscending(s) == \A j \in 1..(Len(s) - 1) : s[j] < s[j + 1]

Aggregated == pc \in {"print", "draw", "plot_done"}

(* C4: for a non-empty record set, the keys of the date-to-count map are    *)
(* exactly the distinct calendar dates of the records, the counts sum to    *)
(* the number of records, and the date sequence put out is strictly         *)
(* ascending without duplicates.                                            *)
C4_AggregationIsExact ==
    (Aggregated /\ records # <<>>) =>
        /\ DOMAIN date_counts = {DateOf(records[j].Date) : j \in 1..Len(records)}
        /\ SumOver(date_counts, DOMAIN date_counts) = Len(records)
        /\ Range(dates) = DOMAIN date_counts
        /\ StrictlyAscending(dates)
        /\ \A j \in 1..Len(printed) : printed[j].date = dates[j]
        /\ pc # "print" => Len(printed) = Len(dates)

C4_Witness ==
    /\ pc = "draw"
    /\ Len(records) = 3
    /\ Len(dates) = 2
    /\ iter_order # dates
    /\ \E a, b \in 1..3 : /\ records[a].Date # records[b].Date
                          /\ DateOf(records[a].Date) = DateOf(records[b].Date)

(* C8: every element (d, c) handed to the rendering collaborator has c =    *)
(* the number of records of calendar date d, whatever the iteration order   *)
(* of the map, and the elements come in ascending date order.               *)
C8_DrawnCountsMatchDates ==
    pc = "plot_done" =>
        /\ \A j \in 1..Len(drawn) : drawn[j].count = CountOfDate(records, drawn[j].date)
        /\ \A j \in 1..(Len(drawn) - 1) : drawn[j].date < drawn[j + 1].date

----------------------------------------------------------------------------
(* Properties of the clustering *)

ClustersOf(i) == {j \in 1..Len(clusters) : i \in clusters[j]}

RECURSIVE TotalMembers(_)
TotalMembers(cl) ==
    IF cl = <<>> THEN 0 ELSE Cardinality(Head(cl)) + TotalMembers(Tail(cl))

(* C3: for a non-empty point set and 1 <= k <= number of points, the        *)
(* terminated k-means run yields exactly k clusters, every input point is   *)
(* in exactly one of them, and the member counts sum to the number of       *)
(* points.                                                                  *)
C3_ClustersPartitionPoints ==
    pc = "fit_done" =>
        /\ Len(clusters) = k
        /\ \A i \in 1..Len(points) : Cardinality(ClustersOf(i)) = 1
        /\ TotalMembers(clusters) = Len(points)

C3_Witness ==
    /\ pc = "fit_done"
    /\ k = 2
    /\ Len(points) = 3
    /\ iter = 2
    /\ clusters[1] # {} /\ clusters[2] # {}
    /\ \E i \in 1..3 : /\ ~Closer(points[i], centers[1], centers[2])
                       /\ ~Closer(points[i], centers[2], centers[1])

ReportsOf(r) == {j \in 1..Len(report) : report[j].record = r}

(* C10: when the members of the clusters are reported, every valid record   *)
(* is reported exactly once, under the cluster its own point was assigned   *)
(* to, also when valid records have identical coordinates.                  *)
C10_EachRecordReportedOnce ==
    pc = "reported" =>
        \A r \in 1..Len(valid_records) :
            /\ Cardinality(ReportsOf(r)) = 1
            /\ \A j \in ReportsOf(r) : r \in clusters[report[j].cluster]

=============================================================================
